---------------------------- MODULE Spec2Model ----------------------------
(* A model of the DSP kernels of src/rust-dsp/src/lib.rs: FftProcessor,      *)
(* VoiceActivityDetector, PitchDetector, FormantAnalyzer and resample.       *)
(*                                                                           *)
(* The host constructs one kernel instance (Init) and then calls its methods *)
(* one at a time; every call runs to completion (Call* actions) and hands    *)
(* its result to the host, which takes it (Return).  A Rust panic (slice or  *)
(* index out of range, integer underflow, division by zero) is recorded in   *)
(* `fault`.                                                                  *)
(*                                                                           *)
(* Numbers.  Samples are integers.  For the VAD a sample s stands for the    *)
(* amplitude s/100 and powers are counted in units of 1e-11, so that the     *)
(* 1e-10 floor of the code is Eps = 10 and a threshold of d dB is the power  *)
(* 10^((d+110)/10).  log10 is increasing, so `energy_db > energy_threshold`  *)
(* is decided on the powers.  f32 arithmetic is modelled by exact            *)
(* arithmetic, except in resample, whose length computation is modelled      *)
(* with the 24-bit significand of f32.                                       *)
EXTENDS Integers, Sequences, FiniteSets, TLC

VARIABLES kernel, pc, op, arg, ret, fault, vad, pitch, formant, fft

vars == <<kernel, pc, op, arg, ret, fault, vad, pitch, formant, fft>>

\* ------------------------------------------------------------------ bounds

\* Longest sample buffer handed to the voice activity detector.
MaxVadSamples == 7

\* Longest sample buffer handed to the pitch tracker.
MaxPitchSamples == 6

\* Longest sample buffer handed to the resampler.
MaxResampleSamples == 11

\* Largest sample rate handed to the resampler.
MaxRate == 13

\* Longest sample buffer handed to the formant analyzer.
MaxFormantSamples == 4

\* Longest sample buffer handed to the spectral engine.
MaxFftSamples == 5

\* ----------------------------------------------------------------- helpers

Min(a, b) == IF a < b THEN a ELSE b

Max(a, b) == IF a > b THEN a ELSE b

Abs(a) == IF a < 0 THEN 0 - a ELSE a

RECURSIVE Pow10(_)
Pow10(k) == IF k <= 0 THEN 1 ELSE 10 * Pow10(k - 1)

\* usize::saturating_sub
SaturatingSub(a, b) == IF a > b THEN a - b ELSE 0

\* All sequences over S of length 0..n.
SeqsUpTo(S, n) == UNION {[1..k -> S] : k \in 0..n}

\* Rust's samples[start..end] (0-based, end exclusive) as a 1-based sequence.
Slice(samples, start, end) == SubSeq(samples, start + 1, end)

\* samples[start..end] panics unless start <= end <= len.
SliceFaults(samples, start, end) == start > end \/ end > Len(samples)

NoObject == [kind |-> "none"]

NoValue == <<>>

\* ------------------------------------------------ VoiceActivityDetector

\* Sample values given to the VAD, in hundredths: silence, a quiet negative
\* sample (power exactly -40 dB) and a loud positive one.
VadSampleValues == {-1, 0, 2}

VadInputs == SeqsUpTo(VadSampleValues, MaxVadSamples)

\* (frame_size, hop_size) pairs the host constructs a detector with.
VadShapes == {<<1, 1>>, <<2, 1>>, <<4, 2>>, <<2, 3>>}

\* Energy thresholds (dB) and zero-crossing thresholds (tenths) the host sets.
EnergyThresholds == {-110, -100, -40}

ZcrThresholds == {0, 1, 5}

\* Denominator of the zero-crossing thresholds: zcr_threshold = z / ZcrDen.
ZcrDen == 10

\* The power 10^(db/10), in units of 1e-11.
ThresholdPower(db) == Pow10((db + 110) \div 10)

\* The 1e-10 added to the mean power before log10.
Eps == Pow10(1)

\* s * s for a sample of amplitude s/100, in units of 1e-11.
SamplePower(s) == s * s * Pow10(7)

\* VoiceActivityDetector::new
VadNew(frame_size, hop_size) ==
    [frame_size |-> frame_size, hop_size |-> hop_size,
     energy_threshold |-> -40, zcr_threshold |-> 1, hangover_frames |-> 5]

\* frame.iter().map(|&s| s * s).sum()
RECURSIVE Energy(_)
Energy(frame) ==
    IF frame = <<>> THEN 0
    ELSE SamplePower(Head(frame)) + Energy(Tail(frame))

\* frame.windows(2).filter(|w| (w[0] >= 0.0) != (w[1] >= 0.0)).count()
ZeroCrossings(frame) ==
    Cardinality({k \in 1..(Len(frame) - 1) :
                    (frame[k] >= 0) # (frame[k + 1] >= 0)})

\* is_speech with `energy_db >= self.energy_threshold` in place of the
\* strict comparison of the code.
IsSpeechAtThreshold(self, frame) ==
    /\ Len(frame) > 0
    /\ Energy(frame) + Eps * Len(frame)
          >= ThresholdPower(self.energy_threshold) * Len(frame)
    /\ ZeroCrossings(frame) * ZcrDen < self.zcr_threshold * Len(frame)

\* is_speech.  On an empty frame both quotients are 0/0 = NaN and every
\* comparison with NaN is false.
IsSpeech(self, frame) ==
    /\ Len(frame) > 0
    /\ Energy(frame) + Eps * Len(frame)
          > ThresholdPower(self.energy_threshold) * Len(frame)
    /\ ZeroCrossings(frame) * ZcrDen < self.zcr_threshold * Len(frame)

\* num_frames of detect (and of detect_batch).
NumFrames(len, frame_size, hop_size) ==
    SaturatingSub(len, frame_size) \div hop_size + 1

FrameStart(self, i) == i * self.hop_size

FrameEnd(self, samples, i) ==
    Min(FrameStart(self, i) + self.frame_size, Len(samples))

\* let frame = &samples[start..end]
Frame(self, samples, i) ==
    Slice(samples, FrameStart(self, i), FrameEnd(self, samples, i))

\* The hangover counter after the `if is_speech` of one frame.
HangoverReload(self, frame, hangover_counter) ==
    IF IsSpeech(self, frame) THEN self.hangover_frames ELSE hangover_counter

\* The frame loop of detect, from frame i on.
RECURSIVE DetectLoop(_, _, _, _, _)
DetectLoop(self, samples, i, hangover_counter, out) ==
    IF i >= NumFrames(Len(samples), self.frame_size, self.hop_size) THEN out
    ELSE LET c == HangoverReload(self, Frame(self, samples, i), hangover_counter)
         IN  IF c > 0
             THEN DetectLoop(self, samples, i + 1, c - 1, Append(out, 1))
             ELSE DetectLoop(self, samples, i + 1, c, Append(out, 0))

\* VoiceActivityDetector::detect
VadDetect(self, samples) == DetectLoop(self, samples, 0, 0, <<>>)

\* Whether detect panics: division by a zero hop, or a frame slice out of range.
VadDetectFaults(self, samples) ==
    \/ self.hop_size = 0
    \/ \E i \in 0..(NumFrames(Len(samples), self.frame_size, self.hop_size) - 1) :
          SliceFaults(samples, FrameStart(self, i), FrameEnd(self, samples, i))

\* The offset of frame i were frames laid end to end, frame_size apart.
SegmentOffsetByFrameSize(self, i) == i * self.frame_size

\* (i * self.hop_size) as u32: the sample offset of frame i.
SegmentOffset(self, i) == i * self.hop_size

\* The loop of get_segments over the flags, from index i (0-based) on.
RECURSIVE SegmentLoop(_, _, _, _, _, _)
SegmentLoop(self, flags, i, in_segment, start, segments) ==
    IF i >= Len(flags)
    THEN IF in_segment
         THEN segments \o <<start, SegmentOffset(self, Len(flags))>>
         ELSE segments
    ELSE IF flags[i + 1] = 1 /\ ~in_segment
         THEN SegmentLoop(self, flags, i + 1, TRUE, SegmentOffset(self, i),
                          segments)
         ELSE IF flags[i + 1] = 0 /\ in_segment
              THEN SegmentLoop(self, flags, i + 1, FALSE, start,
                               segments \o <<start, SegmentOffset(self, i)>>)
              ELSE SegmentLoop(self, flags, i + 1, in_segment, start, segments)

\* VoiceActivityDetector::get_segments
VadGetSegments(self, samples) ==
    SegmentLoop(self, VadDetect(self, samples), 0, FALSE, 0, <<>>)

\* ------------------------------------------------------- exact fractions

\* f32 values of the pitch tracker are fractions <<n, d>> in lowest terms
\* with d > 0; <<1, 0>> is +infinity (a positive number divided by 0.0).
RECURSIVE Gcd(_, _)
Gcd(a, b) == IF b = 0 THEN a ELSE Gcd(b, a % b)

Frac(n, d) ==
    IF d = 0 THEN <<1, 0>>
    ELSE LET g == Gcd(Abs(n), Abs(d))
             sgn == IF d < 0 THEN -1 ELSE 1
         IN  <<sgn * (n \div g), sgn * (d \div g)>>

FracInt(n) == <<n, 1>>

FracAdd(a, b) == Frac(a[1] * b[2] + b[1] * a[2], a[2] * b[2])

FracSub(a, b) == Frac(a[1] * b[2] - b[1] * a[2], a[2] * b[2])

FracMul(a, b) == Frac(a[1] * b[1], a[2] * b[2])

\* a / b for b # 0
FracDiv(a, b) == Frac(a[1] * b[2], a[2] * b[1])

FracLess(a, b) == a[1] * b[2] < b[1] * a[2]

FracLeq(a, b) == a[1] * b[2] <= b[1] * a[2]

\* f32::clamp
FracClamp(a, lo, hi) == IF FracLess(a, lo) THEN lo ELSE IF FracLess(hi, a) THEN hi ELSE a

\* --------------------------------------------------------- PitchDetector

\* Sample values given to the pitch tracker.
PitchSampleValues == {0, 1}

PitchInputs == SeqsUpTo(PitchSampleValues, MaxPitchSamples)

\* (sample_rate, frame_size) pairs the host constructs a pitch tracker with.
PitchShapes == {<<500, 6>>, <<1000, 6>>, <<400, 4>>}

\* Voicing thresholds the host sets, in tenths.
PitchThresholds == {1, 6, 20}

\* Denominator of the voicing thresholds: threshold = t / ThresholdDen.
ThresholdDen == 10

\* Hop sizes the host passes to detect_batch.
BatchHops == {1, 2}

\* usize::next_power_of_two
RECURSIVE NextPowerOfTwoFrom(_, _)
NextPowerOfTwoFrom(p, n) == IF p >= n THEN p ELSE NextPowerOfTwoFrom(2 * p, n)

NextPowerOfTwo(n) == NextPowerOfTwoFrom(1, n)

\* vec![0.0; len]
Zeros(len) == [k \in 1..len |-> 0]

\* PitchDetector::new.  The planner and the three complex buffers
\* (buffer_a, buffer_b, scratch) are not part of the object here: every
\* call overwrites buffer_a and buffer_b at all their indices before it
\* reads them (BufferWrites, BufferReads), so they are values of one call
\* (PaddedFrame, Autocorrelation).  cmnd holds fractions.
PitchNew(sample_rate, frame_size) ==
    [sample_rate |-> sample_rate, frame_size |-> frame_size,
     threshold |-> 1, fft_size |-> NextPowerOfTwo(frame_size * 2),
     diff |-> Zeros(frame_size \div 2),
     cmnd |-> [k \in 1..(frame_size \div 2) |-> FracInt(0)]]

\* buffer[i] of a Rust Vec (0-based).
At(buffer, i) == buffer[i + 1]

\* buffer[i] panics unless i < len.
IndexFaults(buffer, i) == i < 0 \/ i >= Len(buffer)

\* buffer_a before the forward transform: the frame, cut to frame_size
\* and zero-padded to fft_size (the two fill loops).
PaddedFrame(self, samples) ==
    LET n == Min(Len(samples), self.frame_size)
    IN  [k \in 1..self.fft_size |-> IF k <= n THEN samples[k] ELSE 0]

\* Indices of buffer_a (and, by the power loop, of buffer_b) that a call
\* writes before its transforms read the buffer.
BufferWrites(self, samples) ==
    LET n == Min(Len(samples), self.frame_size)
    IN  {i \in 0..(self.fft_size - 1) : i < n}
           \cup {i \in 0..(self.fft_size - 1) : i >= n}

\* Indices the transforms read: the whole buffer.
BufferReads(self) == 0..(self.fft_size - 1)

\* self.buffer_b[tau].re * scale after the inverse transform of the power
\* spectrum of a: the circular autocorrelation of a at lag tau.
RECURSIVE CircularSum(_, _, _)
CircularSum(a, tau, j) ==
    IF j >= Len(a) THEN 0
    ELSE At(a, j) * At(a, (j + tau) % Len(a)) + CircularSum(a, tau, j + 1)

Autocorrelation(a, tau) == CircularSum(a, tau, 0)

\* PitchDetector::compute_autocorrelation: the object after the call.
ComputeAutocorrelation(self, samples) ==
    LET n == Min(Len(samples), self.frame_size)
        a == PaddedFrame(self, samples)
        r0 == Autocorrelation(a, 0)
        tau_max == n \div 2
    IN  [self EXCEPT
           !.diff = [k \in 1..Len(self.diff) |->
                        IF k - 1 < tau_max
                        THEN 2 * (r0 - Autocorrelation(a, k - 1))
                        ELSE self.diff[k]]]

\* Step 2 of detect, from lag tau on: cmnd with entries tau..tau_max-1 written.
RECURSIVE CmndLoop(_, _, _, _, _)
CmndLoop(self, cmnd, tau, tau_max, running_sum) ==
    IF tau >= tau_max THEN cmnd
    ELSE LET sum == running_sum + At(self.diff, tau)
             c == IF sum > 0 THEN Frac(At(self.diff, tau) * tau, sum)
                  ELSE FracInt(1)
         IN  CmndLoop(self, [cmnd EXCEPT ![tau + 1] = c], tau + 1, tau_max, sum)

\* (self.sample_rate / 500.0) as usize and (self.sample_rate / 50.0) as usize
MinPeriod(self) == self.sample_rate \div 500

MaxPeriod(self) == self.sample_rate \div 50

\* self.cmnd[tau] < self.threshold
BelowThreshold(self, tau) ==
    FracLess(At(self.cmnd, tau), Frac(self.threshold, ThresholdDen))

\* A variant of SearchEnd: the scan runs to the end of the cmnd buffer instead
\* of stopping at tau_max.
SearchEndWholeBuffer(self, tau_max) == Min(MaxPeriod(self), Len(self.cmnd))

\* Upper end (exclusive) of the lags step 3 scans.
SearchEnd(self, tau_max) == Min(MaxPeriod(self), tau_max)

\* A variant of FirstDip: the lag of the global minimum of cmnd among the lags
\* below the threshold (the smallest such lag on a tie), or -1.
GlobalMinDip(self, tau, end) ==
    LET below == {t \in tau..(end - 1) : BelowThreshold(self, t)}
    IN  IF below = {} THEN -1
        ELSE CHOOSE t \in below :
                \A u \in below :
                    \/ FracLess(At(self.cmnd, t), At(self.cmnd, u))
                    \/ (At(self.cmnd, t) = At(self.cmnd, u) /\ t <= u)

\* The `for tau in min_period..end` scan of step 3: the lag at which it
\* returns, or -1 when it runs to its end.
RECURSIVE FirstDip(_, _, _)
FirstDip(self, tau, end) ==
    IF tau >= end THEN -1
    ELSE IF BelowThreshold(self, tau) THEN tau
    ELSE FirstDip(self, tau + 1, end)

\* The [frequency, confidence] returned from inside the scan at lag tau.
Estimate(self, tau, tau_max) ==
    LET s0 == At(self.cmnd, tau - 1)
        s1 == At(self.cmnd, tau)
        s2 == At(self.cmnd, tau + 1)
        denom == FracAdd(FracSub(s0, FracMul(FracInt(2), s1)), s2)
        adjustment == FracDiv(FracSub(s0, s2), FracMul(FracInt(2), denom))
        refined_tau == FracAdd(FracInt(tau),
                               FracClamp(adjustment, Frac(-1, 2), Frac(1, 2)))
    IN  IF tau > 0 /\ tau < tau_max - 1 /\ denom[1] # 0
        THEN <<FracDiv(FracInt(self.sample_rate), refined_tau),
               FracSub(FracInt(1), s1)>>
        ELSE <<Frac(self.sample_rate, tau),
               FracSub(FracInt(1), At(self.cmnd, tau))>>

Unvoiced == <<FracInt(0), FracInt(0)>>

\* PitchDetector::detect: the object after the call, the result, and
\* whether the call panics (self.cmnd[0] of an empty cmnd).
PitchDetect(self, samples) ==
    LET n == Min(Len(samples), self.frame_size)
        tau_max == n \div 2
        s1 == ComputeAutocorrelation(self, samples)
        panics == IndexFaults(self.cmnd, 0)
        s2 == IF panics THEN s1
              ELSE [s1 EXCEPT !.cmnd =
                       CmndLoop(s1, [s1.cmnd EXCEPT ![1] = FracInt(1)],
                                1, tau_max, 0)]
        tau == IF panics THEN -1
               ELSE FirstDip(s2, MinPeriod(s2), SearchEnd(s2, tau_max))
    IN  [self |-> s2,
         fault |-> panics,
         result |-> IF tau < 0 THEN Unvoiced ELSE Estimate(s2, tau, tau_max)]

\* The frame loop of detect_batch, from frame i on.
RECURSIVE BatchLoop(_, _, _, _, _)
BatchLoop(self, samples, hop_size, i, results) ==
    IF i >= NumFrames(Len(samples), self.frame_size, hop_size)
    THEN [self |-> self, fault |-> FALSE, result |-> results]
    ELSE LET start == i * hop_size
             end == Min(start + self.frame_size, Len(samples))
         IN  IF SliceFaults(samples, start, end)
             THEN [self |-> self, fault |-> TRUE, result |-> results]
             ELSE LET d == PitchDetect(self, Slice(samples, start, end))
                  IN  IF d.fault
                      THEN [self |-> d.self, fault |-> TRUE, result |-> results]
                      ELSE BatchLoop(d.self, samples, hop_size, i + 1,
                                     results \o d.result)

\* PitchDetector::detect_batch (hop_size = 0 divides by zero).
PitchDetectBatch(self, samples, hop_size) ==
    IF hop_size = 0 THEN [self |-> self, fault |-> TRUE, result |-> <<>>]
    ELSE BatchLoop(self, samples, hop_size, 0, <<>>)

\* ------------------------------------------------------------ f32 values

\* A finite non-negative f32 is <<m, e>>, the number m * 2^e, with
\* 2^23 <= m < 2^24 (a 24-bit significand) or m = 0.  Results are rounded
\* to nearest, ties to even, as the hardware does.
RECURSIVE Pow2(_)
Pow2(k) == IF k <= 0 THEN 1 ELSE 2 * Pow2(k - 1)

\* Number of significand bits of an f32.
SignificandBits == 24

SigMin == Pow2(SignificandBits - 1)

SigMax == Pow2(SignificandBits)

RECURSIVE BitLength(_)
BitLength(n) == IF n = 0 THEN 0 ELSE 1 + BitLength(n \div 2)

\* m, one above it when `up`, as an f32 with exponent e.
F32Round(m, e, up) ==
    IF ~up THEN <<m, e>>
    ELSE IF m + 1 = SigMax THEN <<SigMin, e + 1>> ELSE <<m + 1, e>>

\* The f32 nearest to p * 2^e, p an integer >= 0.
F32OfScaled(p, e) ==
    IF p = 0 THEN <<0, 0>>
    ELSE IF p < SigMin
    THEN LET j == SignificandBits - BitLength(p) IN <<p * Pow2(j), e - j>>
    ELSE LET k == BitLength(p) - SignificandBits
             q == p \div Pow2(k)
             r == p % Pow2(k)
             half == Pow2(k - 1)
         IN  F32Round(q, e + k,
                      k > 0 /\ (r > half \/ (r = half /\ q % 2 = 1)))

\* n as f32, n an integer >= 0.
F32OfInt(n) == F32OfScaled(n, 0)

\* The quotient digits of a / b, one bit at a time, until the significand
\* m has 24 bits; then the rounding by the remainder.
RECURSIVE DivideFrom(_, _, _, _)
DivideFrom(m, rem, b, e) ==
    IF m >= SigMin
    THEN F32Round(m, e, 2 * rem > b \/ (2 * rem = b /\ m % 2 = 1))
    ELSE LET bit == IF 2 * rem >= b THEN 1 ELSE 0
         IN  DivideFrom(2 * m + bit, 2 * rem - bit * b, b, e - 1)

\* x / y in f32, for x >= 0 and y > 0.
F32Div(x, y) ==
    IF x[1] = 0 THEN <<0, 0>>
    ELSE DivideFrom(x[1] \div y[1], x[1] % y[1], y[1], x[2] - y[2])

\* n as f32 * y, for an integer n below 2^7 (the product of n and the
\* significand of y is formed exactly, then rounded once).
F32MulInt(n, y) == F32OfScaled(n * y[1], y[2])

\* x as usize: truncation toward zero.
F32Trunc(x) ==
    IF x[2] >= 0 THEN x[1] * Pow2(x[2])
    ELSE IF 0 - x[2] >= SignificandBits THEN 0
    ELSE x[1] \div Pow2(0 - x[2])

\* -------------------------------------------------------------- resample

\* Sample values given to the resampler.
ResampleSampleValues == {0, 1}

\* Constant buffers of every length: the sample values do not reach the
\* part of resample that is modelled.
ResampleInputs ==
    {[k \in 1..n |-> v] : n \in 0..MaxResampleSamples, v \in ResampleSampleValues}

\* Sample rates (positive integers) the host converts between.
ResampleRates == 1..MaxRate

\* const WINDOW_SIZE
WINDOW_SIZE == 8

\* let ratio = to_rate / from_rate
Ratio(from_rate, to_rate) == F32Div(F32OfInt(to_rate), F32OfInt(from_rate))

\* f32::round of x, as usize.
F32RoundToInt(x) ==
    LET t == F32Trunc(x)
    IN  IF F32Trunc(<<x[1], x[2] + 1>>) >= 2 * t + 1 THEN t + 1 ELSE t

\* A variant of NewLength: the product rounded to nearest instead of truncated.
NewLengthRounded(len, ratio) == F32RoundToInt(F32MulInt(len, ratio))

\* let new_length = (samples.len() as f32 * ratio) as usize
NewLength(len, ratio) == F32Trunc(F32MulInt(len, ratio))

\* let src_idx = (i as f32 / ratio) as usize
SrcIdx(i, ratio) == F32Trunc(F32Div(F32OfInt(i), ratio))

\* The range j_start..j_end of input indices output sample i is summed
\* over.  The sinc and Lanczos weights and the weighted sum are f32 values
\* that are not modelled: an output sample is written as its window.
Window(samples, i, ratio) ==
    LET src_idx == SrcIdx(i, ratio)
    IN  <<SaturatingSub(src_idx, WINDOW_SIZE),
          Min(src_idx + WINDOW_SIZE, Len(samples))>>

\* resample: one window per output sample.
Resample(samples, from_rate, to_rate) ==
    LET ratio == Ratio(from_rate, to_rate)
    IN  [i \in 1..NewLength(Len(samples), ratio) |->
            Window(samples, i - 1, ratio)]

\* Whether resample panics: samples[j] for a j of a window outside the input.
ResampleFaults(samples, from_rate, to_rate) ==
    LET out == Resample(samples, from_rate, to_rate)
    IN  \E i \in 1..Len(out) :
            \E j \in out[i][1]..(out[i][2] - 1) : IndexFaults(samples, j)

\* ------------------------------------------------------- FormantAnalyzer

\* Sample values given to the formant analyzer.
FormantSampleValues == {-1, 0, 1}

FormantInputs == SeqsUpTo(FormantSampleValues, MaxFormantSamples)

\* (sample_rate, lpc_order) pairs the host constructs an analyzer with.
FormantShapes == {<<8000, 2>>, <<8000, 3>>}

\* let n_points = 512
NPoints == 512

\* Most formants analyze returns.
MaxFormants == 4

\* FormantAnalyzer::new.  response_re holds the 512 magnitudes of the
\* all-pole filter of a coefficient vector; it is written as that vector
\* (with zeros set for the initial vec![0.0; 512]).  response_im is never
\* used.
FormantNew(sample_rate, lpc_order) ==
    [sample_rate |-> sample_rate, lpc_order |-> lpc_order,
     autocorr |-> Zeros(lpc_order + 1),
     lpc_coeffs |-> [k \in 1..lpc_order |-> FracInt(0)],
     response_re |-> [zeros |-> TRUE,
                      coeffs |-> [k \in 1..lpc_order |-> FracInt(0)]]]

\* The inner loop for j in 0..(n - i): the sum of samples[j] * samples[j + i].
RECURSIVE LagProduct(_, _, _)
LagProduct(samples, i, j) ==
    IF j >= Len(samples) - i THEN 0
    ELSE At(samples, j) * At(samples, j + i) + LagProduct(samples, i, j + 1)

\* `n - i` underflows when i > n: a panic in a checked build; in a wrapping
\* build the range 0..(n - i) is huge and samples[j + i] is out of range at
\* its first index.  Either way the call panics at lag i.
LagFaults(samples, i) == i > Len(samples)

\* The autocorrelation loop of compute_lpc from lag i on: autocorr, and
\* whether the loop panicked (autocorr[i] = 0.0 is stored before the panic).
RECURSIVE AutocorrLoop(_, _, _, _)
AutocorrLoop(autocorr, samples, i, order) ==
    IF i > order THEN [autocorr |-> autocorr, fault |-> FALSE]
    ELSE IF LagFaults(samples, i)
    THEN [autocorr |-> [autocorr EXCEPT ![i + 1] = 0], fault |-> TRUE]
    ELSE AutocorrLoop([autocorr EXCEPT ![i + 1] = LagProduct(samples, i, 0)],
                      samples, i + 1, order)

\* lambda of step i, before the division by e.
RECURSIVE LambdaSum(_, _, _, _)
LambdaSum(autocorr, a_prev, i, j) ==
    IF j >= i THEN FracInt(At(autocorr, i + 1))
    ELSE FracSub(LambdaSum(autocorr, a_prev, i, j + 1),
                 FracMul(At(a_prev, j), FracInt(At(autocorr, i - j))))

\* The Levinson-Durbin loop from step i on: lpc_coeffs at its end.
RECURSIVE LevinsonLoop(_, _, _, _, _, _)
LevinsonLoop(autocorr, lpc_coeffs, a_prev, e, i, order) ==
    IF i >= order THEN lpc_coeffs
    ELSE LET lambda == FracDiv(LambdaSum(autocorr, a_prev, i, 0), e)
             coeffs == [k \in 1..order |->
                          IF k - 1 = i THEN lambda
                          ELSE IF k - 1 < i
                          THEN FracSub(At(a_prev, k - 1),
                                       FracMul(lambda, At(a_prev, i - k)))
                          ELSE lpc_coeffs[k]]
         IN  LevinsonLoop(autocorr, coeffs, coeffs,
                          FracMul(e, FracSub(FracInt(1), FracMul(lambda, lambda))),
                          i + 1, order)

\* The silence branch: for c in self.lpc_coeffs.iter_mut() { *c = 0.0 }
ZeroCoeffs(lpc_coeffs) == [k \in 1..Len(lpc_coeffs) |-> FracInt(0)]

\* FormantAnalyzer::compute_lpc: the object after the call and whether it
\* panicked.  With integer samples |autocorr[0]| < 1e-10 is autocorr[0] = 0.
ComputeLpc(self, samples) ==
    LET order == self.lpc_order
        ac == AutocorrLoop(self.autocorr, samples, 0, order)
    IN  IF ac.fault
        THEN [self |-> [self EXCEPT !.autocorr = ac.autocorr], fault |-> TRUE]
        ELSE IF At(ac.autocorr, 0) = 0
        THEN [self |-> [self EXCEPT !.autocorr = ac.autocorr,
                                    !.lpc_coeffs = ZeroCoeffs(self.lpc_coeffs)],
              fault |-> FALSE]
        ELSE [self |-> [self EXCEPT
                          !.autocorr = ac.autocorr,
                          !.lpc_coeffs =
                              LevinsonLoop(ac.autocorr, self.lpc_coeffs,
                                           [k \in 1..order |-> FracInt(0)],
                                           FracInt(At(ac.autocorr, 0)),
                                           0, order)],
              fault |-> FALSE]

\* The response of all-zero coefficients is flat: real_sum = 1 and
\* imag_sum = 0 at every one of the 512 points.
FlatResponse(response_re) ==
    /\ ~response_re.zeros
    /\ \A k \in 1..Len(response_re.coeffs) : response_re.coeffs[k][1] = 0

\* Bins at which the peak loop may find a formant of a response that is
\* not flat.  The magnitudes are sums of f32 sines and cosines, which are
\* not modelled: any ascending choice of at most four of these bins is a
\* possible outcome.
PeakBins == {64, 128, 256}

\* The ascending sequence of the members of a set of bins.
RECURSIVE Ascending(_)
Ascending(bins) ==
    IF bins = {} THEN <<>>
    ELSE LET b == CHOOSE x \in bins : \A y \in bins : x <= y
         IN  <<b>> \o Ascending(bins \ {b})

\* The peak loop of analyze: the sets of bins i in 1..510 it can push.  A
\* flat response has no i with response_re[i] > response_re[i - 1].
PeakSets(response_re) ==
    IF FlatResponse(response_re) THEN {{}}
    ELSE {b \in SUBSET PeakBins : Cardinality(b) <= MaxFormants}

\* let freq = i as f32 * self.sample_rate / 2.0 / n_points as f32
BinFrequency(self, i) == Frac(i * self.sample_rate, 2 * NPoints)

\* FormantAnalyzer::analyze: the possible outcomes, each the object after
\* the call, the formants returned and whether the call panicked.
Analyze(self, samples) ==
    LET lpc == ComputeLpc(self, samples)
        done == [lpc.self EXCEPT
                   !.response_re = [zeros |-> FALSE,
                                    coeffs |-> lpc.self.lpc_coeffs]]
    IN  IF lpc.fault
        THEN {[self |-> lpc.self, fault |-> TRUE, result |-> <<>>]}
        ELSE {[self |-> done, fault |-> FALSE,
               result |-> [k \in 1..Cardinality(bins) |->
                              BinFrequency(done, Ascending(bins)[k])]] :
                 bins \in PeakSets(done.response_re)}

\* ---------------------------------------------------------- FftProcessor

\* Sample values given to the spectral engine.
FftSampleValues == {-1, 0, 1}

FftInputs == SeqsUpTo(FftSampleValues, MaxFftSamples)

\* Frame sizes the host constructs a spectral engine with: those whose
\* window and transform are exact in fractions.
FftSizes == {2, 4}

\* 2 * cos(2 * PI * i / d) for the d = size - 1 of FftSizes.
TwoCos(i, d) == IF i % d = 0 THEN 2 ELSE -1

\* The Hann window, times 4: 4 * 0.5 * (1 - cos(2 PI i / (size - 1))).
Window4(size) == [k \in 1..size |-> 2 - TwoCos(k - 1, size - 1)]

\* FftProcessor::new.  window and buffer are kept times 4; a complex
\* number is <<re, im>>.
FftNew(size) ==
    [size |-> size, window |-> Window4(size),
     buffer |-> [k \in 1..size |-> <<0, 0>>]]

\* The two fill loops of power_spectrum.
WindowedFrame(self, samples) ==
    LET len == Min(Len(samples), self.size)
    IN  [k \in 1..self.size |->
            IF k <= len THEN <<samples[k] * self.window[k], 0>> ELSE <<0, 0>>]

\* z * exp(-2 PI i q / 4): a multiplication by a power of -i.
TimesQuarterTurns(z, q) ==
    CASE q % 4 = 0 -> z
      [] q % 4 = 1 -> <<z[2], 0 - z[1]>>
      [] q % 4 = 2 -> <<0 - z[1], 0 - z[2]>>
      [] q % 4 = 3 -> <<0 - z[2], z[1]>>

\* Bin k of the forward transform of x, for a size that divides 4.
RECURSIVE TransformSum(_, _, _)
TransformSum(x, k, j) ==
    IF j >= Len(x) THEN <<0, 0>>
    ELSE LET t == TimesQuarterTurns(At(x, j), (4 \div Len(x)) * j * k)
             rest == TransformSum(x, k, j + 1)
         IN  <<t[1] + rest[1], t[2] + rest[2]>>

\* fft.process_with_scratch(&mut self.buffer, ..)
Transform(x) == [k \in 1..Len(x) |-> TransformSum(x, k - 1, 0)]

\* FftProcessor::power_spectrum: the object after the call, the spectrum
\* (fractions) and whether the call panicked.
PowerSpectrum(self, samples) ==
    LET len == Min(Len(samples), self.size)
        buffer == Transform(WindowedFrame(self, samples))
        n_bins == self.size \div 2 + 1
    IN  [self |-> [self EXCEPT !.buffer = buffer],
         fault |-> \E i \in 0..(len - 1) :
                      IndexFaults(samples, i) \/ IndexFaults(self.window, i)
                         \/ IndexFaults(self.buffer, i),
         result |-> [k \in 1..Min(n_bins, self.size) |->
                       Frac(buffer[k][1] * buffer[k][1] + buffer[k][2] * buffer[k][2],
                            4 * 4 * self.size)]]

\* FftProcessor::magnitude_db.  An entry 10 * log10(p + 1e-10) is written
\* [power |-> p]; it is finite for every p >= 0.
MagnitudeDb(self, samples) ==
    LET ps == PowerSpectrum(self, samples)
    IN  [self |-> ps.self, fault |-> ps.fault,
         result |-> [k \in 1..Len(ps.result) |-> [power |-> ps.result[k]]]]

\* ----------------------------------------------------------------- actions

InitVad ==
    /\ kernel = "vad"
    /\ \E shape \in VadShapes : vad = VadNew(shape[1], shape[2])
    /\ pitch = NoObject /\ formant = NoObject /\ fft = NoObject
    /\ pc = "idle" /\ op = "new" /\ arg = NoValue /\ ret = NoValue
    /\ fault = FALSE

\* The host takes the result of the last call.
Return ==
    /\ pc = "returned"
    /\ pc' = "idle" /\ op' = "none" /\ arg' = NoValue /\ ret' = NoValue
    /\ UNCHANGED <<kernel, fault, vad, pitch, formant, fft>>

\* VoiceActivityDetector::set_thresholds(energy_db, zcr)
SetThresholds ==
    /\ kernel = "vad" /\ pc = "idle" /\ ~fault
    /\ \E energy_db \in EnergyThresholds, zcr \in ZcrThresholds :
          /\ vad' = [vad EXCEPT !.energy_threshold = energy_db,
                                !.zcr_threshold = zcr]
          /\ arg' = <<energy_db, zcr>>
    /\ pc' = "returned" /\ op' = "set_thresholds" /\ ret' = NoValue
    /\ UNCHANGED <<kernel, fault, pitch, formant, fft>>

\* VoiceActivityDetector::detect(samples)
CallVadDetect ==
    /\ kernel = "vad" /\ pc = "idle" /\ ~fault
    /\ \E samples \in VadInputs :
          /\ arg' = samples
          /\ fault' = VadDetectFaults(vad, samples)
          /\ ret' = IF fault' THEN NoValue ELSE VadDetect(vad, samples)
    /\ pc' = "returned" /\ op' = "detect"
    /\ UNCHANGED <<kernel, vad, pitch, formant, fft>>

\* VoiceActivityDetector::get_segments(samples)
CallGetSegments ==
    /\ kernel = "vad" /\ pc = "idle" /\ ~fault
    /\ \E samples \in VadInputs :
          /\ arg' = samples
          /\ fault' = VadDetectFaults(vad, samples)
          /\ ret' = IF fault' THEN NoValue ELSE VadGetSegments(vad, samples)
    /\ pc' = "returned" /\ op' = "get_segments"
    /\ UNCHANGED <<kernel, vad, pitch, formant, fft>>

NextVad == SetThresholds \/ CallVadDetect \/ CallGetSegments \/ Return

SpecVad == InitVad /\ [][NextVad]_vars

InitPitch ==
    /\ kernel = "pitch"
    /\ \E shape \in PitchShapes : pitch = PitchNew(shape[1], shape[2])
    /\ vad = NoObject /\ formant = NoObject /\ fft = NoObject
    /\ pc = "idle" /\ op = "new" /\ arg = NoValue /\ ret = NoValue
    /\ fault = FALSE

\* PitchDetector::set_threshold(threshold)
SetThreshold ==
    /\ kernel = "pitch" /\ pc = "idle" /\ ~fault
    /\ \E threshold \in PitchThresholds :
          /\ pitch' = [pitch EXCEPT !.threshold = threshold]
          /\ arg' = <<threshold>>
    /\ pc' = "returned" /\ op' = "set_threshold" /\ ret' = NoValue
    /\ UNCHANGED <<kernel, fault, vad, formant, fft>>

\* PitchDetector::detect(samples)
CallPitchDetect ==
    /\ kernel = "pitch" /\ pc = "idle" /\ ~fault
    /\ \E samples \in PitchInputs :
          \E d \in {PitchDetect(pitch, samples)} :
              /\ arg' = samples
              /\ pitch' = d.self
              /\ fault' = d.fault
              /\ ret' = IF d.fault THEN NoValue ELSE d.result
    /\ pc' = "returned" /\ op' = "detect"
    /\ UNCHANGED <<kernel, vad, formant, fft>>

\* PitchDetector::detect_batch(samples, hop_size)
CallDetectBatch ==
    /\ kernel = "pitch" /\ pc = "idle" /\ ~fault
    /\ \E samples \in PitchInputs, hop_size \in BatchHops :
          \E d \in {PitchDetectBatch(pitch, samples, hop_size)} :
              /\ arg' = <<samples, hop_size>>
              /\ pitch' = d.self
              /\ fault' = d.fault
              /\ ret' = IF d.fault THEN NoValue ELSE d.result
    /\ pc' = "returned" /\ op' = "detect_batch"
    /\ UNCHANGED <<kernel, vad, formant, fft>>

NextPitch == SetThreshold \/ CallPitchDetect \/ CallDetectBatch \/ Return

SpecPitch == InitPitch /\ [][NextPitch]_vars

InitResample ==
    /\ kernel = "resample"
    /\ vad = NoObject /\ pitch = NoObject /\ formant = NoObject /\ fft = NoObject
    /\ pc = "idle" /\ op = "none" /\ arg = NoValue /\ ret = NoValue
    /\ fault = FALSE

\* resample(samples, from_rate, to_rate)
CallResample ==
    /\ kernel = "resample" /\ pc = "idle" /\ ~fault
    /\ \E samples \in ResampleInputs, from_rate \in ResampleRates,
          to_rate \in ResampleRates :
          /\ arg' = <<samples, from_rate, to_rate>>
          /\ fault' = ResampleFaults(samples, from_rate, to_rate)
          /\ ret' = IF fault' THEN NoValue
                    ELSE Resample(samples, from_rate, to_rate)
    /\ pc' = "returned" /\ op' = "resample"
    /\ UNCHANGED <<kernel, vad, pitch, formant, fft>>

NextResample == CallResample \/ Return

SpecResample == InitResample /\ [][NextResample]_vars

InitFormant ==
    /\ kernel = "formant"
    /\ \E shape \in FormantShapes : formant = FormantNew(shape[1], shape[2])
    /\ vad = NoObject /\ pitch = NoObject /\ fft = NoObject
    /\ pc = "idle" /\ op = "new" /\ arg = NoValue /\ ret = NoValue
    /\ fault = FALSE

\* FormantAnalyzer::analyze(samples)
CallAnalyze ==
    /\ kernel = "formant" /\ pc = "idle" /\ ~fault
    /\ \E samples \in FormantInputs :
          \E d \in Analyze(formant, samples) :
              /\ arg' = samples
              /\ formant' = d.self
              /\ fault' = d.fault
              /\ ret' = IF d.fault THEN NoValue ELSE d.result
    /\ pc' = "returned" /\ op' = "analyze"
    /\ UNCHANGED <<kernel, vad, pitch, fft>>

NextFormant == CallAnalyze \/ Return

SpecFormant == InitFormant /\ [][NextFormant]_vars

InitFft ==
    /\ kernel = "fft"
    /\ \E size \in FftSizes : fft = FftNew(size)
    /\ vad = NoObject /\ pitch = NoObject /\ formant = NoObject
    /\ pc = "idle" /\ op = "new" /\ arg = NoValue /\ ret = NoValue
    /\ fault = FALSE

\* FftProcessor::power_spectrum(samples)
CallPowerSpectrum ==
    /\ kernel = "fft" /\ pc = "idle" /\ ~fault
    /\ \E samples \in FftInputs :
          \E d \in {PowerSpectrum(fft, samples)} :
              /\ arg' = samples
              /\ fft' = d.self
              /\ fault' = d.fault
              /\ ret' = IF d.fault THEN NoValue ELSE d.result
    /\ pc' = "returned" /\ op' = "power_spectrum"
    /\ UNCHANGED <<kernel, vad, pitch, formant>>

\* FftProcessor::magnitude_db(samples)
CallMagnitudeDb ==
    /\ kernel = "fft" /\ pc = "idle" /\ ~fault
    /\ \E samples \in FftInputs :
          \E d \in {MagnitudeDb(fft, samples)} :
              /\ arg' = samples
              /\ fft' = d.self
              /\ fault' = d.fault
              /\ ret' = IF d.fault THEN NoValue ELSE d.result
    /\ pc' = "returned" /\ op' = "magnitude_db"
    /\ UNCHANGED <<kernel, vad, pitch, formant>>

NextFft == CallPowerSpectrum \/ CallMagnitudeDb \/ Return

SpecFft == InitFft /\ [][NextFft]_vars

\* The host constructs one kernel and calls it.
Init == InitFft \/ InitVad \/ InitPitch \/ InitFormant \/ InitResample

Next ==
    \/ CallPowerSpectrum \/ CallMagnitudeDb
    \/ SetThresholds \/ CallVadDetect \/ CallGetSegments
    \/ SetThreshold \/ CallPitchDetect \/ CallDetectBatch
    \/ CallAnalyze
    \/ CallResample
    \/ Return

Spec == Init /\ [][Next]_vars

\* ------------------------------------------------- claims about the VAD

\* A detect call of the VAD has returned its flags.
VadDetectReturned ==
    kernel = "vad" /\ pc = "returned" /\ op = "detect" /\ ~fault

\* A get_segments call of the VAD has returned its list.
GetSegmentsReturned ==
    kernel = "vad" /\ pc = "returned" /\ op = "get_segments" /\ ~fault

\* Frame i of the last input individually passes the speech test.
FramePasses(i) == IsSpeech(vad, Frame(vad, arg, i))

AllZero(samples) == \A k \in 1..Len(samples) : samples[k] = 0

\* The energy threshold is not below the energy_db of an all-zero frame,
\* 10 * log10(1e-10), or the zero-crossing threshold is not positive.
SilenceRejected ==
    ThresholdPower(vad.energy_threshold) >= Eps \/ vad.zcr_threshold <= 0

\* C1: VAD hangover.  With h = hangover_frames, if frame i passes the speech
\* test and frames i+1..i+h each fail it, the flags of frames i+1..i+h are
\* all 1, and the flag of frame i+h+1 is 0 if that frame fails too.
C1_HangoverCoversHFrames ==
    VadDetectReturned =>
        \A i \in 0..(Len(ret) - 1) :
            LET h == vad.hangover_frames
            IN  ( /\ FramePasses(i)
                  /\ i + h <= Len(ret) - 1
                  /\ \A k \in 1..h : ~FramePasses(i + k) )
                => /\ \A k \in 1..h : ret[i + k + 1] = 1
                   /\ ( i + h + 1 <= Len(ret) - 1 /\ ~FramePasses(i + h + 1) )
                         => ret[i + h + 2] = 0

\* What the code does for C1: the hangover counter is decremented in the
\* frame that reloads it, so the forced flags cover frames i+1..i+h-1 and
\* frame i+h is 0.
C1_HangoverCoversHMinusOneFrames ==
    VadDetectReturned =>
        \A i \in 0..(Len(ret) - 1) :
            LET h == vad.hangover_frames
            IN  ( /\ FramePasses(i)
                  /\ i + h <= Len(ret) - 1
                  /\ \A k \in 1..h : ~FramePasses(i + k) )
                => /\ \A k \in 1..(h - 1) : ret[i + k + 1] = 1
                   /\ ret[i + h + 1] = 0

\* C3 as stated: whatever thresholds set_thresholds has stored, detect on an
\* all-zero buffer returns only 0 flags and get_segments returns no segment.
C3_SilenceNeverSpeech_AnyThresholds ==
    /\ (VadDetectReturned /\ AllZero(arg)) => \A k \in 1..Len(ret) : ret[k] = 0
    /\ (GetSegmentsReturned /\ AllZero(arg)) => ret = <<>>

\* C3 amended: when the energy threshold is at least the energy_db the code
\* computes for an all-zero frame (10*log10(1e-10), -100 dB), or the
\* zero-crossing threshold is not positive, detect on an all-zero buffer
\* returns only 0 flags and get_segments returns no segment.
C3_SilenceNeverSpeech ==
    SilenceRejected =>
        /\ (VadDetectReturned /\ AllZero(arg)) =>
               \A k \in 1..Len(ret) : ret[k] = 0
        /\ (GetSegmentsReturned /\ AllZero(arg)) => ret = <<>>

\* Witness of C3: after set_thresholds stored the -100 dB threshold and a
\* positive zero-crossing threshold, get_segments on a non-empty all-zero
\* buffer returned the empty list.
C3_Witness ==
    /\ GetSegmentsReturned
    /\ arg # <<>> /\ AllZero(arg)
    /\ vad.energy_threshold = -100 /\ vad.zcr_threshold = 5
    /\ ret = <<>>

\* The flags detect gives for the last input.
FlagsOfArg == VadDetect(vad, arg)

\* Indices (0-based) of the first frame of each maximal run of 1s.
RunStarts(flags) ==
    {i \in 0..(Len(flags) - 1) :
        flags[i + 1] = 1 /\ (i = 0 \/ flags[i] = 0)}

\* C4: get_segments returns exactly one (start, end) pair per maximal run of
\* 1s of the detect output, with start = hop_size * index of the run's first
\* frame; every pair has start < end and each end is <= the next start.
C4_SegmentsAreTheRuns ==
    GetSegmentsReturned =>
        LET starts == RunStarts(FlagsOfArg)
            n == Len(ret) \div 2
        IN  /\ Len(ret) = 2 * Cardinality(starts)
            /\ {ret[2 * k - 1] : k \in 1..n} = {vad.hop_size * i : i \in starts}
            /\ \A k \in 1..n : ret[2 * k - 1] < ret[2 * k]
            /\ \A k \in 1..(n - 1) : ret[2 * k] <= ret[2 * k + 1]

\* Witness of C4: get_segments returned two segments, the first closed by a
\* 0 flag and the second, starting past offset 0, still open at the last
\* frame.
C4_Witness ==
    /\ GetSegmentsReturned
    /\ Len(ret) = 4
    /\ FlagsOfArg[Len(FlagsOfArg)] = 1
    /\ ret[3] = vad.hop_size * (Len(FlagsOfArg) - 1)

\* get_segments returned a segment that starts after frame 0 of a detector
\* whose frames overlap or leave gaps (hop_size # frame_size).
C4_StartCountsHops ==
    /\ GetSegmentsReturned
    /\ vad.frame_size # vad.hop_size
    /\ Len(ret) = 2 /\ ret[1] > 0

\* C5: every end index get_segments returns is <= len(samples); a run open
\* at the end of the flags is closed at the final sample offset of the input.
C5_EndsWithinInput ==
    GetSegmentsReturned =>
        \A k \in 1..(Len(ret) \div 2) : ret[2 * k] <= Len(arg)

\* What the code does for C5: the ends stay within the input when the input
\* holds at least one whole frame and the hop does not exceed the frame.
C5_EndsWithinInputOfWholeFrames ==
    (GetSegmentsReturned /\ Len(arg) >= vad.frame_size
                         /\ vad.hop_size <= vad.frame_size) =>
        \A k \in 1..(Len(ret) \div 2) : ret[2 * k] <= Len(arg)

\* ----------------------------------------- claims about the pitch tracker

\* A detect call of the pitch tracker has returned its estimate.
PitchDetectReturned ==
    kernel = "pitch" /\ pc = "returned" /\ op = "detect" /\ ~fault

\* A detect_batch call has returned its flattened estimates.
DetectBatchReturned ==
    kernel = "pitch" /\ pc = "returned" /\ op = "detect_batch" /\ ~fault

\* tau_max of a detect call on samples.
TauMaxOf(samples) == Min(Len(samples), pitch.frame_size) \div 2

\* The lags of [sample_rate/500, min(sample_rate/50, tau_max)) whose cmnd,
\* as the last detect call left it, is below the threshold.
Candidates ==
    {tau \in MinPeriod(pitch)..(Min(MaxPeriod(pitch), TauMaxOf(arg)) - 1) :
        BelowThreshold(pitch, tau)}

SmallestCandidate == CHOOSE tau \in Candidates : \A u \in Candidates : tau <= u

\* C7: first-dip rule.  The estimate of detect is derived from the smallest
\* lag of [sample_rate/500, min(sample_rate/50, tau_max)) whose cmnd is
\* below the threshold; if there is none the result is the unvoiced (0, 0).
C7_FirstDipRule ==
    PitchDetectReturned =>
        IF Candidates = {} THEN ret = Unvoiced
        ELSE ret = Estimate(pitch, SmallestCandidate, TauMaxOf(arg))

\* Witness of C7: detect returned an estimate taken at the first lag below
\* the threshold although a later lag in range has a smaller cmnd.
C7_Witness ==
    /\ PitchDetectReturned
    /\ Candidates # {}
    /\ \E u \in Candidates :
          FracLess(At(pitch.cmnd, u), At(pitch.cmnd, SmallestCandidate))
    /\ ret = Estimate(pitch, SmallestCandidate, TauMaxOf(arg))
    /\ ret # Unvoiced

\* A (frequency, confidence) pair with confidence in [0, 1].
ConfidenceInRange(confidence) ==
    FracLeq(FracInt(0), confidence) /\ FracLeq(confidence, FracInt(1))

\* C8: every estimate detect returns, and every pair detect_batch returns,
\* whatever threshold set_threshold has stored, has confidence in [0, 1],
\* and (0, 0) is returned only as the unvoiced result.
C8_ConfidenceInUnitInterval ==
    /\ PitchDetectReturned =>
          /\ ConfidenceInRange(ret[2])
          /\ ret = Unvoiced => Candidates = {}
    /\ DetectBatchReturned =>
          \A k \in 1..(Len(ret) \div 2) : ConfidenceInRange(ret[2 * k])

\* What the code does for C8: in exact arithmetic the confidence 1 - cmnd
\* lies in [0, 1] as long as the stored threshold does not exceed 1.
C8_ConfidenceInUnitIntervalUpToOne ==
    pitch.threshold <= ThresholdDen =>
        /\ PitchDetectReturned => ConfidenceInRange(ret[2])
        /\ DetectBatchReturned =>
              \A k \in 1..(Len(ret) \div 2) : ConfidenceInRange(ret[2 * k])

\* A freshly constructed pitch tracker with the sample rate, frame size and
\* threshold of the one in use.
FreshPitch ==
    [PitchNew(pitch.sample_rate, pitch.frame_size)
        EXCEPT !.threshold = pitch.threshold]

\* C10: detect is history-independent.  Whatever calls came before, the
\* result of a detect (and of a detect_batch) call equals the result of the
\* same call on a freshly constructed instance with the same sample rate,
\* frame size and threshold, and every index of the complex buffers that
\* the call reads was written by the call.
C10_HistoryIndependent ==
    /\ PitchDetectReturned =>
          /\ ret = PitchDetect(FreshPitch, arg).result
          /\ BufferReads(pitch) \subseteq BufferWrites(pitch, arg)
    /\ DetectBatchReturned =>
          ret = PitchDetectBatch(FreshPitch, arg[1], arg[2]).result

\* Witness of C10: detect returned from a call on a short input while the
\* diff and cmnd buffers still hold entries that an earlier, longer call
\* wrote at lags this call does not reach.
C10_Witness ==
    /\ PitchDetectReturned
    /\ Len(arg) < pitch.frame_size
    /\ \E tau \in TauMaxOf(arg)..(Len(pitch.diff) - 1) :
          /\ At(pitch.diff, tau) # 0
          /\ At(pitch.cmnd, tau) # FracInt(0)
          /\ BelowThreshold(pitch, tau)

\* ------------------------------------------- claims about every kernel

\* C2: totality.  Every call of every kernel operation, on a sample buffer
\* of any length (empty, shorter than the frame size, shorter than the LPC
\* order), completes and returns a result: no call panics.
C2_EveryCallReturns == pc = "returned" => ~fault

\* ------------------------------------------- claims about the resampler

ResampleReturned ==
    kernel = "resample" /\ pc = "returned" /\ op = "resample" /\ ~fault

\* len(samples) * to_rate of the last call; the exact length ratio is this
\* over from_rate (arg[2]).
LengthTimesRate == Len(arg[1]) * arg[3]

\* C6 as stated: the output length is round(len(samples) * to_rate /
\* from_rate), either neighbour being accepted when the quotient lies
\* halfway between two integers.
C6_LengthIsRounded ==
    ResampleReturned =>
        Abs(2 * arg[2] * Len(ret) - 2 * LengthTimesRate) <= arg[2]

\* C6 amended: the output length is the f32 product len(samples) *
\* (to_rate / from_rate) truncated toward zero.  For integer rates with
\* len * to_rate < 2^22 it is the floor of len * to_rate / from_rate when
\* that quotient is not an integer, and N or N - 1 when the quotient is the
\* integer N.
C6_LengthIsTruncated ==
    (ResampleReturned /\ LengthTimesRate < Pow2(22)) =>
        LET floor == LengthTimesRate \div arg[2]
        IN  IF LengthTimesRate % arg[2] # 0
            THEN Len(ret) = floor
            ELSE Len(ret) \in {floor - 1, floor}

\* Witness of C6: resample returned fewer samples than the rounded
\* quotient, the quotient having a fractional part above one half.
C6_Witness ==
    /\ ResampleReturned
    /\ 2 * (LengthTimesRate % arg[2]) > arg[2]
    /\ Len(ret) = LengthTimesRate \div arg[2]
    /\ Len(ret) > 0

\* The f32 rounding of the ratio is visible: the quotient is the integer N
\* and resample returned N - 1 samples (11 samples from rate 11 to 13).
C6_RoundingLosesOne ==
    /\ ResampleReturned
    /\ LengthTimesRate % arg[2] = 0
    /\ Len(ret) = LengthTimesRate \div arg[2] - 1

\* ------------------------------------- claims about the formant analyzer

\* An analyze call has ended, by a return or by a panic.
AnalyzeEnded == kernel = "formant" /\ pc = "returned" /\ op = "analyze"

CoeffsAllZero == \A k \in 1..Len(formant.lpc_coeffs) : formant.lpc_coeffs[k][1] = 0

\* C9: whatever analyze calls came before, analyze on an all-zero frame
\* leaves every LPC coefficient equal to zero and returns an empty formant
\* list.
C9_SilentFrameClearsCoeffs ==
    (AnalyzeEnded /\ AllZero(arg)) =>
        ~fault /\ CoeffsAllZero /\ ret = <<>>

\* What the code does for C9: the claim holds of the all-zero frames that
\* are at least lpc_order samples long.
C9_HoldsFromOrderSamplesOn ==
    (AnalyzeEnded /\ AllZero(arg) /\ Len(arg) >= formant.lpc_order) =>
        ~fault /\ CoeffsAllZero /\ ret = <<>>

\* A panicked analyze call on an all-zero frame has left the coefficients
\* of an earlier frame in the object.
C9_StaleCoeffsAfterPanic ==
    AnalyzeEnded /\ AllZero(arg) /\ fault /\ ~CoeffsAllZero

=============================================================================
